---- MODULE Spec2Model ----
(***************************************************************************)
(* Order execution engine: the order service (order records, order log,    *)
(* WebSocket subscriber registry, processOrder), the BullMQ job queue and  *)
(* its worker pool, and the persistence layer they write to.               *)
(*                                                                         *)
(* processOrder is an async function: every await on persistence, on the   *)
(* router or on the executor is a point where other handlers run, so each  *)
(* stretch of code between two such awaits is one action.                  *)
(***************************************************************************)
EXTENDS Integers, Sequences, FiniteSets, TLC

(* ----------------------------- bounds ---------------------------------- *)
\* what the environment does in total: createOrder calls, enqueueOrder calls,
\* WebSocket connections, database outages and provider calls that fail
MaxRequests == 4
\* orders that createOrder may persist
MaxOrders == 2
\* WebSocket connections
MaxHandles == 1
\* messages published per order when the subscriber registry is driven on its own
MaxMessages == 2
\* env.QUEUE_CONCURRENCY, the worker's `concurrency` (10 when not configured)
QUEUE_CONCURRENCY == 1

(* ------------------------- program constants --------------------------- *)
\* env.MAX_RETRIES, the queue's `attempts`
MAX_RETRIES == 3
\* backoff: { type: 'exponential', delay: 2000 }
BackoffDelay == 2000

\* an identifier for which no order record is ever created
UnknownId == 0
OrderIds == 1..MaxOrders
JobIds == OrderIds \cup {UnknownId}
Handles == 1..MaxHandles
\* subscribers when the subscriber registry is driven on its own
HubHandles == 1..(MaxHandles + 1)
\* slippage tolerances of create requests, in hundredths; createOrder itself
\* validates nothing, so a negative tolerance can be persisted
Slippages == {-1, 1}
\* prices quoted by the mock providers (25.5 * variance), in units
Prices == {24, 25, 26}
\* transaction hashes generateMockTxHash can return
TxHashes == {"tx1", "tx2"}
\* the answers of the mock market while the interleavings of requests, worker
\* and sockets are explored: one price, one hash
CalmPrices == {25}
CalmTxHashes == {"tx1"}
\* the answers of the mock market while the recorded data is explored
MovingPrices == {25, 26}
\* arguments of validateSlippage: prices, and tolerances in hundredths
ExpectedPrices == {0, 25, 100}
ExecutedPrices == {0, 20, 25, 50, 95, 100, 105, 150}
Tolerances == {-1, 0, 5, 10, 50}

VARIABLES
    initialized,    \* QueueService.queue !== null
    orders,         \* the Order table, by orderId
    creating,       \* createOrder calls between the insert and the log write
    logs,           \* the OrderLog table: per order the statuses, as appended
    enqueued,       \* per identifier: enqueueOrder calls that returned normally
    rejected,       \* identifiers for which enqueueOrder threw 'Queue not initialized'
    wait,           \* BullMQ: waiting jobs, oldest first
    delayed,        \* BullMQ: jobs waiting for their backoff delay
    failedJobs,     \* BullMQ: jobs that used up their attempts
    active,         \* BullMQ: jobs being processed, each with processOrder's position
    wsSubscribers,  \* OrderService.wsSubscribers: a Map from orderId to a Set of handles
    socket,         \* per WebSocket connection: "idle", "open" or "closed"
    received,       \* per connection: the statuses delivered through subscriber.send
    notifs,         \* per order: the statuses passed to broadcastOrderUpdate
    swaps,          \* per order: the number of executeSwap calls (txHashes generated)
    dbUp,           \* whether persistence calls succeed
    requests,       \* number of requests and faults the environment has made
    quoteCall,      \* a call of getOptimalQuote: its provider calls and its outcome
    tieWinners,     \* on equal prices: (call that completed first, provider selected)
    slippageCall,   \* a call of validateSlippage: its arguments and its result
    lastMessage,    \* per order: the message last passed to broadcastOrderUpdate
    registryCall,   \* a direct call of subscribeToOrder or unsubscribeFromOrder
    post,           \* the POST /api/orders/execute request being handled, and its reply
    lookup,         \* the last GET /api/orders/:orderId request and its reply
    observer,       \* a WebSocket connection being attached: what it was sent first
    server          \* main and gracefulShutdown: how far the process has come

vars == <<initialized, orders, creating, logs, enqueued, rejected, wait, delayed, failedJobs, active,
          wsSubscribers, socket, received, notifs, swaps, dbUp, requests,
          quoteCall, tieWinners, slippageCall, lastMessage, registryCall, post, lookup, observer, server>>

queueVars == <<enqueued, rejected, wait, delayed, failedJobs, active>>
hubVars == <<wsSubscribers, socket, received>>
harnessVars == <<post, lookup, observer, server>>
callVars == <<registryCall, harnessVars>>
routerVars == <<quoteCall, tieWinners, slippageCall, callVars>>
serviceVars == <<initialized, orders, creating, logs, queueVars, hubVars, notifs, lastMessage, swaps,
                 dbUp, requests>>

\* the statuses processOrder publishes, in the order of a pass that succeeds
StatusFlow == <<"routing", "building", "submitted", "confirmed">>

\* columns that are null are written "none", and 0 for executedPrice
NoOrder == [exists |-> FALSE, status |-> "none", slippage |-> 0,
            retryCount |-> 0, errorMessage |-> "none",
            selectedDex |-> "none", executedPrice |-> 0, txHash |-> "none"]

\* a message that always carries an error text
MessageWithError(status) ==
    [status |-> status, executedPrice |-> 0, txHash |-> "none", error |-> "unknown"]

\* a WebSocketMessage with its optional fields left out ("none", 0)
Message(status) ==
    [status |-> status, executedPrice |-> 0, txHash |-> "none", error |-> "none"]

OrderExists(o) == o \in OrderIds /\ orders[o].exists

\* a subtraction whose sign is kept
NoAbs(x) == x

\* Math.abs
Abs(x) == IF x < 0 THEN -x ELSE x

\* a division in which 0 / 0 is 0
QuotientZeroOverZero(num, den) ==
    IF den = 0 /\ num = 0 THEN [kind |-> "finite", num |-> 0, den |-> 1]
    ELSE IF den = 0 THEN [kind |-> IF num > 0 THEN "Infinity" ELSE "-Infinity",
                          num |-> 0, den |-> 1]
    ELSE [kind |-> "finite", num |-> num, den |-> den]

\* the number num / den as JavaScript computes it: 0 / 0 is NaN and x / 0 is
\* Infinity or -Infinity; any other quotient is kept exactly
Quotient(num, den) ==
    IF den = 0
    THEN [kind |-> IF num = 0 THEN "NaN" ELSE IF num > 0 THEN "Infinity" ELSE "-Infinity",
          num |-> 0, den |-> 1]
    ELSE [kind |-> "finite", num |-> num, den |-> den]

\* q <= tol / 100 as JavaScript compares numbers: false for NaN
LessOrEqual(q, tol) ==
    CASE q.kind = "NaN" -> FALSE
      [] q.kind = "Infinity" -> FALSE
      [] q.kind = "-Infinity" -> TRUE
      [] OTHER -> IF q.den > 0 THEN q.num * 100 <= tol * q.den
                  ELSE q.num * 100 >= tol * q.den

(* MockDexRouter.validateSlippage; the tolerance is given in hundredths     *)
validateSlippage(expectedPrice, executedPrice, slippageTolerance) ==
    LET slippagePercent == Quotient(Abs(expectedPrice - executedPrice), expectedPrice)
    IN LessOrEqual(slippagePercent, slippageTolerance)

(* ------------------------------ router --------------------------------- *)

Providers == <<"raydium", "meteora">>

\* a provider call that has returned its quote (fee in thousandths)
Resolved(dex, price) ==
    [state |-> "resolved", dex |-> dex, price |-> price,
     fee |-> IF dex = "raydium" THEN 3 ELSE 2]
\* a provider call that has thrown
Rejected(dex) == [state |-> "rejected", dex |-> dex, price |-> 0, fee |-> 0]
\* a provider call that has not settled yet
Pending(dex) == [state |-> "pending", dex |-> dex, price |-> 0, fee |-> 0]

\* what a provider call can settle to
ProviderOutcomes(dex) == {Resolved(dex, p) : p \in Prices} \cup {Rejected(dex)}

DexQuote(r) == [price |-> r.price, fee |-> r.fee, dex |-> r.dex]
NoQuote == [price |-> 0, fee |-> 0, dex |-> "none"]
\* a swap result that comes without transaction hash
SwapResultWithoutHash(txHash, executedPrice, dex) ==
    [txHash |-> "none", executedPrice |-> executedPrice, dex |-> dex]

\* a swap executed at a price one unit off the agreed one
SwapResultWithSlippedPrice(txHash, executedPrice, dex) ==
    [txHash |-> txHash, executedPrice |-> executedPrice + 1, dex |-> dex]

\* a SwapResult, and none yet
SwapResult(txHash, executedPrice, dex) ==
    [txHash |-> txHash, executedPrice |-> executedPrice, dex |-> dex]
NoResult == SwapResult("none", 0, "none")

NoQuoteCall ==
    [pc |-> "idle", calls |-> <<Pending("raydium"), Pending("meteora")>>, first |-> 0,
     quote |-> NoQuote, altQuote |-> NoQuote, error |-> "none"]
\* no call of the registry made yet
NoRegistryCall == [op |-> "none", orderId |-> 0, subscriber |-> 0,
                   before |-> [o \in {} |-> {}]]

\* request bodies of POST /api/orders/execute: amounts, and slippage
\* tolerances in hundredths, <<>> when the body has no slippage
RequestAmounts == {0, 1}
RequestSlippages == {<<>>, <<-1>>, <<100>>, <<101>>}
Bodies == [tokenIn : {"", "SOL"}, tokenOut : {"", "USDC"}, amount : RequestAmounts,
           slippage : RequestSlippages]
NoBody == [tokenIn |-> "", tokenOut |-> "", amount |-> 0, slippage |-> <<>>]

\* slippage: z.number().min(0).max(1).default(0.01), in hundredths
DefaultSlippage == 1

\* a schema that lets an amount of zero pass
SchemaIssuesLax(body) ==
    (IF body.tokenIn = "" THEN <<"tokenIn">> ELSE <<>>)
    \o (IF body.tokenOut = "" THEN <<"tokenOut">> ELSE <<>>)
    \o (IF body.amount < 0 THEN <<"amount">> ELSE <<>>)
    \o (IF body.slippage # <<>> /\ body.slippage[1] < 0 THEN <<"slippage">> ELSE <<>>)
    \o (IF body.slippage # <<>> /\ body.slippage[1] > 100 THEN <<"slippage">> ELSE <<>>)

\* the issues createOrderSchema finds in a body, in the order of its keys
SchemaIssues(body) ==
    (IF body.tokenIn = "" THEN <<"tokenIn">> ELSE <<>>)
    \o (IF body.tokenOut = "" THEN <<"tokenOut">> ELSE <<>>)
    \o (IF body.amount <= 0 THEN <<"amount">> ELSE <<>>)
    \o (IF body.slippage # <<>> /\ body.slippage[1] < 0 THEN <<"slippage">> ELSE <<>>)
    \o (IF body.slippage # <<>> /\ body.slippage[1] > 100 THEN <<"slippage">> ELSE <<>>)

\* createOrderSchema.parse: the validated request, with the default slippage
\* when the body has none; with issues it throws a ZodError, of which the
\* handler answers the first message
createOrderSchema(body) ==
    LET issues == SchemaIssues(body) IN
    [ok |-> issues = <<>>,
     error |-> IF issues = <<>> THEN "none" ELSE Head(issues),
     slippage |-> IF body.slippage = <<>> THEN DefaultSlippage ELSE body.slippage[1]]

\* no POST request is being handled and none was answered
NoPost == [pc |-> "idle", body |-> NoBody, slippage |-> 0, orderId |-> 0, code |-> 0,
           error |-> "none"]

\* no GET request was answered
NoLookup == [orderId |-> 0, code |-> 0, status |-> "none"]

\* no connection is being attached
NoObserver == [pc |-> "idle", handle |-> 0, orderId |-> 0, liveBefore |-> <<>>,
               snapshot |-> "none"]

NoSlippageCall ==
    [called |-> FALSE, expected |-> 0, executed |-> 0, tolerance |-> 0, result |-> FALSE]

\* results handed over in the order in which the calls completed
ResultsAsCompleted(c) ==
    IF c.first = 2 THEN <<c.calls[2], c.calls[1]>> ELSE c.calls

\* Promise.all resolves to the results in the order of the array it was given
PromiseAllResults(c) == c.calls

\* Promise.allSettled: a rejected promise does not reject the whole
PromiseAllNeverRejected(calls) == FALSE

\* Promise.all rejects as soon as one of its promises rejects
PromiseAllRejected(calls) == \E i \in DOMAIN calls : calls[i].state = "rejected"
PromiseAllResolved(calls) == \A i \in DOMAIN calls : calls[i].state = "resolved"

\* a selection of the lower price
getWorstQuote(raydiumQuote, meteoraQuote) ==
    [quote |-> IF raydiumQuote.price < meteoraQuote.price THEN raydiumQuote
               ELSE meteoraQuote,
     altQuote |-> IF raydiumQuote.price < meteoraQuote.price THEN meteoraQuote
                  ELSE raydiumQuote]

\* MockDexRouter.getOptimalQuote, from the two quotes on: the selection
getOptimalQuote(raydiumQuote, meteoraQuote) ==
    [quote |-> IF raydiumQuote.price > meteoraQuote.price THEN raydiumQuote
               ELSE meteoraQuote,
     altQuote |-> IF raydiumQuote.price > meteoraQuote.price THEN meteoraQuote
                  ELSE raydiumQuote]

(* ------------------------------ queue ---------------------------------- *)

\* the executions of processOrder under way for an identifier
ExecsOf(id) == {e \in active : e.id = id}

\* the ids of the jobs the queue holds, whatever their state
HeldJobIds ==
    {wait[i].id : i \in DOMAIN wait} \cup {j.id : j \in delayed}
        \cup {j.id : j \in failedJobs} \cup {e.id : e \in active}

\* enqueueOrder without the jobId option: no job is ever taken for a duplicate
JobExistsNever(id) == FALSE

\* queue.add(..., { jobId: orderId }) adds nothing when a job with that id exists
JobExists(id) == id \in HeldJobIds

\* backoff of type 'fixed': the same delay before every re-attempt
BackoffFixed(attemptsMade) == BackoffDelay

\* exponential backoff: delay * 2^(attemptsMade - 1)
Backoff(attemptsMade) == BackoffDelay * (2 ^ (attemptsMade - 1))

\* one re-attempt too many
RetryAllowedOffByOne(attemptsMade) == attemptsMade <= MAX_RETRIES

\* a failed attempt is retried while attemptsMade < attempts
RetryAllowed(attemptsMade) == attemptsMade < MAX_RETRIES

\* a worker that ignores its `concurrency` option
WorkerAlwaysHasCapacity == TRUE

\* a worker that is paused: it takes no job
WorkerPaused == FALSE

\* the worker takes a job only while fewer than `concurrency` are active
WorkerHasCapacity == Cardinality(active) < QUEUE_CONCURRENCY

InitWith(handles) ==
    /\ initialized = FALSE
    /\ orders = [o \in OrderIds |-> NoOrder]
    /\ creating = {}
    /\ logs = [o \in OrderIds |-> <<>>]
    /\ enqueued = [o \in JobIds |-> 0]
    /\ rejected = {}
    /\ wait = <<>>
    /\ delayed = {}
    /\ failedJobs = {}
    /\ active = {}
    /\ wsSubscribers = [o \in {} |-> {}]
    /\ socket = [h \in handles |-> "idle"]
    /\ received = [h \in handles |-> <<>>]
    /\ notifs = [o \in OrderIds |-> <<>>]
    /\ lastMessage = [o \in OrderIds |-> Message("none")]
    /\ swaps = [o \in OrderIds |-> 0]
    /\ dbUp = TRUE
    /\ requests = 0
    /\ quoteCall = NoQuoteCall
    /\ tieWinners = {}
    /\ slippageCall = NoSlippageCall
    /\ registryCall = NoRegistryCall
    /\ post = NoPost
    /\ lookup = NoLookup
    /\ observer = NoObserver
    /\ server = "created"

Init == InitWith(Handles)

(* --------------------------- order service ---------------------------- *)

\* this.wsSubscribers.get(orderId), an absent entry read as no subscribers
SubscribersOf(o) == IF o \in DOMAIN wsSubscribers THEN wsSubscribers[o] ELSE {}

\* OrderService.subscribeToOrder: the registry after the call; the order's
\* Set is created when it has no entry yet
subscribeToOrder(orderId, subscriber) ==
    [o \in DOMAIN wsSubscribers \cup {orderId} |->
        IF o = orderId THEN SubscribersOf(o) \cup {subscriber} ELSE wsSubscribers[o]]

\* an unsubscribe that leaves the handle where it is
unsubscribeForgotten(orderId, subscriber) == wsSubscribers

\* an unsubscribe that leaves the emptied Set in the Map
unsubscribeKeepsEmptySet(orderId, subscriber) ==
    IF orderId \in DOMAIN wsSubscribers
    THEN [wsSubscribers EXCEPT ![orderId] = @ \ {subscriber}]
    ELSE wsSubscribers

\* an unsubscribe that deletes the order's entry whoever the handle is
unsubscribeDropsOrder(orderId, subscriber) ==
    [o \in DOMAIN wsSubscribers \ {orderId} |-> wsSubscribers[o]]

\* OrderService.unsubscribeFromOrder: the registry after the call; nothing is
\* done for an order without entry, and an entry whose Set became empty is deleted
unsubscribeFromOrder(orderId, subscriber) ==
    IF orderId \in DOMAIN wsSubscribers
    THEN IF wsSubscribers[orderId] \ {subscriber} = {}
         THEN [o \in DOMAIN wsSubscribers \ {orderId} |-> wsSubscribers[o]]
         ELSE [wsSubscribers EXCEPT ![orderId] = @ \ {subscriber}]
    ELSE wsSubscribers

\* a broadcast that sends to every open handle, subscribed to the order or not
DeliveredToEveryHandle(o, h) == socket[h] = "open"

\* a loop that stops at the first subscriber whose send throws: the
\* subscribers after it (in handle order) get nothing
DeliveredUntilFailure(o, h) ==
    /\ h \in SubscribersOf(o)
    /\ \A g \in SubscribersOf(o) : g <= h => socket[g] = "open"

\* the message reaches a subscriber of the order unless its own send fails:
\* each send is in a try/catch of its own inside the loop
Delivered(o, h) == h \in SubscribersOf(o) /\ socket[h] = "open"

\* a broadcast that puts the newest message in front of the earlier ones
broadcastNewestFirst(o, message) ==
    /\ notifs' = [notifs EXCEPT ![o] = Append(@, message.status)]
    /\ lastMessage' = [lastMessage EXCEPT ![o] = message]
    /\ received' = [h \in DOMAIN received |->
                      IF Delivered(o, h) THEN <<message.status>> \o received[h]
                      ELSE received[h]]

\* OrderService.broadcastOrderUpdate: every subscriber of the order is sent
\* the message; a send that throws (the connection is lost) is caught, by
\* subscriber.send (routes/orders.ts) and by the loop, and only printed
broadcastOrderUpdate(o, message) ==
    /\ notifs' = [notifs EXCEPT ![o] = Append(@, message.status)]
    /\ lastMessage' = [lastMessage EXCEPT ![o] = message]
    /\ received' = [h \in DOMAIN received |->
                      IF Delivered(o, h) THEN Append(received[h], message.status)
                      ELSE received[h]]

\* a log write that puts the new entry in front of the older ones
logOrderStatusNewestFirst(o, status) ==
    logs' = IF dbUp /\ OrderExists(o) THEN [logs EXCEPT ![o] = <<status>> \o @]
            ELSE logs

\* a log write that adds the entry to the log of every order
logOrderStatusEverywhere(o, status) ==
    logs' = IF dbUp /\ OrderExists(o)
            THEN [x \in DOMAIN logs |->
                    IF OrderExists(x) THEN Append(logs[x], status) ELSE logs[x]]
            ELSE logs

\* OrderService.logOrderStatus: appends when the order is found; a persistence
\* error is caught and only printed
logOrderStatus(o, status) ==
    logs' = IF dbUp /\ OrderExists(o) THEN [logs EXCEPT ![o] = Append(@, status)]
            ELSE logs

\* QueueService.initialize
Initialize ==
    /\ ~initialized
    /\ initialized' = TRUE
    /\ UNCHANGED <<routerVars, orders, creating, logs, queueVars, hubVars, notifs, lastMessage, swaps,
                   dbUp, requests>>

\* the identifier of the next order record (randomUUID: a fresh one)
NextOrderId == Cardinality({x \in OrderIds : orders[x].exists}) + 1

\* OrderService.createOrder: prisma.order.create with status 'pending'
insertOrder(o, s) ==
    /\ orders' = [orders EXCEPT ![o] =
                    [NoOrder EXCEPT !.exists = TRUE, !.status = "pending",
                                    !.slippage = s]]
    /\ creating' = creating \cup {o}

\* OrderService.createOrder up to the insert: prisma.order.create with a fresh
\* orderId (an unreachable database makes createOrder throw: nothing changes)
CreateOrder ==
    \E s \in Slippages :
        LET o == NextOrderId IN
        /\ o \in OrderIds
        /\ requests < MaxRequests
        /\ dbUp
        /\ insertOrder(o, s)
        /\ requests' = requests + 1
        /\ UNCHANGED <<routerVars, initialized, logs, queueVars, hubVars, notifs, lastMessage, swaps, dbUp>>

\* OrderService.createOrder from the log write to its return
CreateOrderLog(o) ==
    /\ o \in creating
    /\ logOrderStatus(o, "pending")
    /\ creating' = creating \ {o}
    /\ UNCHANGED <<routerVars, initialized, orders, queueVars, hubVars, notifs, lastMessage, swaps, dbUp, requests>>

\* the identifiers a caller can name: those createOrder has returned, and any
\* identifier that belongs to no order
Known(o) == o = UnknownId \/ (OrderExists(o) /\ o \notin creating)

\* a queue that takes jobs before initialize has run
QueueAlwaysReady == TRUE

\* QueueService.enqueueOrder: this.queue is set
QueueReady == initialized

\* QueueService.enqueueOrder: the check of this.queue and queue.add
addJob(o) ==
    IF ~QueueReady
    THEN /\ rejected' = rejected \cup {o}    \* throws 'Queue not initialized'
         /\ UNCHANGED <<enqueued, wait>>
    ELSE /\ wait' = IF JobExists(o) THEN wait    \* duplicate jobId: nothing is added
                    ELSE Append(wait, [id |-> o, attemptsMade |-> 0, delays |-> <<>>])
         /\ enqueued' = [enqueued EXCEPT ![o] = @ + 1]
         /\ UNCHANGED rejected

\* QueueService.enqueueOrder
EnqueueOrder(o) ==
    /\ Known(o)
    /\ requests < MaxRequests
    /\ requests' = requests + 1
    /\ addJob(o)
    /\ UNCHANGED <<routerVars, initialized, orders, creating, logs, delayed, failedJobs,
                   active, hubVars, notifs, lastMessage, swaps, dbUp>>

(* ------------------------------ worker --------------------------------- *)

\* the Worker takes the oldest waiting job and calls processOrder
StartJob ==
    /\ wait # <<>>
    /\ WorkerHasCapacity
    /\ active' = active \cup {[id |-> Head(wait).id,
                               attemptsMade |-> Head(wait).attemptsMade,
                               delays |-> Head(wait).delays,
                               pc |-> "lookup", error |-> "none", retryCount |-> 0,
                               providers |-> <<"pending", "pending">>,
                               quote |-> NoQuote, altQuote |-> NoQuote,
                               result |-> NoResult, trail |-> <<>>]}
    /\ wait' = Tail(wait)
    /\ UNCHANGED <<routerVars, initialized, orders, creating, logs, enqueued, rejected, delayed, failedJobs,
                   hubVars, notifs, lastMessage, swaps, dbUp, requests>>

\* a delayed job whose backoff has elapsed goes back to the waiting list
PromoteDelayed(id) == \E j \in delayed :
    /\ j.id = id
    /\ delayed' = delayed \ {j}
    /\ wait' = Append(wait, [id |-> j.id, attemptsMade |-> j.attemptsMade,
                              delays |-> Append(j.delays, j.delay)])
    /\ UNCHANGED <<routerVars, initialized, orders, creating, logs, enqueued, rejected, failedJobs, active,
                   hubVars, notifs, lastMessage, swaps, dbUp, requests>>

\* processOrder moves on to its next await
Goto(e, pc) ==
    /\ active' = (active \ {e}) \cup {[e EXCEPT !.pc = pc]}
    /\ UNCHANGED <<enqueued, rejected, wait, delayed, failedJobs>>

\* processOrder moves on to its next await after a broadcast or a call of the
\* executor, which the attempt's trail records
GotoAfter(e, event, pc) ==
    /\ active' = (active \ {e}) \cup {[e EXCEPT !.pc = pc, !.trail = Append(@, event)]}
    /\ UNCHANGED <<enqueued, rejected, wait, delayed, failedJobs>>

\* an error that is noted while the attempt goes on to the executor
ThrowIgnored(e, error) ==
    /\ active' = (active \ {e}) \cup {[e EXCEPT !.pc = "swap", !.error = error]}
    /\ UNCHANGED <<enqueued, rejected, wait, delayed, failedJobs>>

\* an error thrown inside the try block: control goes to the catch block
Throw(e, error) ==
    /\ active' = (active \ {e}) \cup {[e EXCEPT !.pc = "catchFind", !.error = error]}
    /\ UNCHANGED <<enqueued, rejected, wait, delayed, failedJobs>>

\* processOrder returned: the job completes, and removeOnComplete deletes it
CompleteJob(e) ==
    /\ active' = active \ {e}
    /\ UNCHANGED <<enqueued, rejected, wait, delayed, failedJobs>>

\* processOrder threw: the job is retried after its backoff delay, or failed
FailJob(e) ==
    LET n == e.attemptsMade + 1 IN
    /\ active' = active \ {e}
    /\ IF RetryAllowed(n)
       THEN /\ delayed' = delayed \cup
                    {[id |-> e.id, attemptsMade |-> n, delay |-> Backoff(n),
                      delays |-> e.delays]}
            /\ UNCHANGED failedJobs
       ELSE /\ failedJobs' = failedJobs \cup
                    {[id |-> e.id, attemptsMade |-> n, delays |-> e.delays]}
            /\ UNCHANGED delayed
    /\ UNCHANGED <<enqueued, rejected, wait>>

(* ------------------------ OrderService.processOrder -------------------- *)

\* a lookup that throws when it finds no order
OrderNotFoundThrows(e) == FailJob(e)

\* the lookup found no order: processOrder prints 'Order not found' and returns
OrderNotFound(e) == CompleteJob(e)

\* what processOrder leaves alone whatever it does
ProcessFrame == UNCHANGED <<routerVars, initialized, creating, wsSubscribers, socket, dbUp, requests>>

\* prisma.order.findUnique at the start of the try block, then, for an order
\* that exists, the 'routing' broadcast
Lookup(id) == \E e \in ExecsOf(id) :
    /\ e.pc = "lookup"
    /\ \/ /\ ~dbUp
          /\ Throw(e, "db")
          /\ UNCHANGED <<orders, logs, notifs, lastMessage, received, swaps>>
       \/ /\ dbUp /\ ~OrderExists(e.id)         \* 'Order not found': return
          /\ OrderNotFound(e)
          /\ UNCHANGED <<orders, logs, notifs, lastMessage, received, swaps>>
       \/ /\ dbUp /\ OrderExists(e.id)
          /\ broadcastOrderUpdate(e.id, Message("routing"))
          /\ GotoAfter(e, "routing", "logRouting")
          /\ UNCHANGED <<orders, logs, swaps>>
    /\ ProcessFrame

\* logOrderStatus('routing'), then getOptimalQuote is called
LogRouting(id) == \E e \in ExecsOf(id) :
    /\ e.pc = "logRouting"
    /\ logOrderStatus(e.id, "routing")
    /\ Goto(e, "quote")
    /\ UNCHANGED <<orders, notifs, lastMessage, received, swaps>>
    /\ ProcessFrame

\* getOptimalQuote settled, the providers answering with prices of the given
\* set: when a provider call has thrown, Promise.all rejects and the error goes
\* to the catch block; otherwise a quote is selected and the 'building'
\* broadcast follows
Quote(id, prices) == \E e \in ExecsOf(id) :
    /\ e.pc = "quote"
    /\ \E r \in ProviderOutcomes("raydium"), m \in ProviderOutcomes("meteora") :
        LET settled == [e EXCEPT !.providers = <<r.state, m.state>>] IN
        /\ r.state = "resolved" => r.price \in prices
        /\ m.state = "resolved" => m.price \in prices
        /\ IF PromiseAllRejected(<<r, m>>)
           THEN /\ requests < MaxRequests
                /\ requests' = requests + 1
                /\ active' = (active \ {e}) \cup
                        {[settled EXCEPT !.pc = "catchFind", !.error = "provider"]}
                /\ UNCHANGED <<notifs, lastMessage, received>>
           ELSE /\ broadcastOrderUpdate(e.id, Message("building"))
                /\ active' = (active \ {e}) \cup
                        {[settled EXCEPT
                            !.pc = "logBuilding",
                            !.trail = Append(@, "building"),
                            !.quote = getOptimalQuote(DexQuote(r), DexQuote(m)).quote,
                            !.altQuote =
                                getOptimalQuote(DexQuote(r), DexQuote(m)).altQuote]}
                /\ UNCHANGED requests
    /\ UNCHANGED <<enqueued, rejected, wait, delayed, failedJobs>>
    /\ UNCHANGED <<orders, logs, swaps>>
    /\ UNCHANGED <<routerVars, initialized, creating, wsSubscribers, socket, dbUp>>

\* logOrderStatus('building'), the slippage check of the quote against
\* itself, then the 'submitted' broadcast
LogBuilding(id) == \E e \in ExecsOf(id) :
    /\ e.pc = "logBuilding"
    /\ logOrderStatus(e.id, "building")
    /\ IF validateSlippage(e.quote.price, e.quote.price, orders[e.id].slippage)
       THEN /\ broadcastOrderUpdate(e.id, Message("submitted"))
            /\ GotoAfter(e, "submitted", "logSubmitted")
       ELSE /\ Throw(e, "slippage")
            /\ UNCHANGED <<notifs, lastMessage, received>>
    /\ UNCHANGED <<orders, swaps>>
    /\ ProcessFrame

\* logOrderStatus('submitted'), then executeSwap is called
LogSubmitted(id) == \E e \in ExecsOf(id) :
    /\ e.pc = "logSubmitted"
    /\ logOrderStatus(e.id, "submitted")
    /\ Goto(e, "swap")
    /\ UNCHANGED <<orders, notifs, lastMessage, received, swaps>>
    /\ ProcessFrame

\* executeSwap returned: a txHash from generateMockTxHash (one of the given
\* set), the price and the provider it was given (the mock executor always
\* answers); prisma.order.update to 'confirmed' is issued
ExecuteSwap(id, hashes) == \E e \in ExecsOf(id), txHash \in hashes :
    /\ e.pc = "swap"
    /\ swaps' = [swaps EXCEPT ![e.id] = @ + 1]
    /\ active' = (active \ {e}) \cup
            {[e EXCEPT !.pc = "updateConfirmed",
                       !.trail = Append(@, "swap"),
                       !.result = SwapResult(txHash, e.quote.price, e.quote.dex)]}
    /\ UNCHANGED <<enqueued, rejected, wait, delayed, failedJobs>>
    /\ UNCHANGED <<orders, logs, notifs, lastMessage, received>>
    /\ ProcessFrame

\* prisma.order.update to 'confirmed', then the 'confirmed' broadcast
UpdateConfirmed(id) == \E e \in ExecsOf(id) :
    /\ e.pc = "updateConfirmed"
    /\ \/ /\ ~dbUp
          /\ Throw(e, "db")
          /\ UNCHANGED <<orders, notifs, lastMessage, received>>
       \/ /\ dbUp
          /\ orders' = [orders EXCEPT ![e.id].status = "confirmed",
                                      ![e.id].selectedDex = e.quote.dex,
                                      ![e.id].executedPrice = e.result.executedPrice,
                                      ![e.id].txHash = e.result.txHash]
          /\ broadcastOrderUpdate(e.id,
                [Message("confirmed") EXCEPT !.executedPrice = e.result.executedPrice,
                                             !.txHash = e.result.txHash])
          /\ GotoAfter(e, "confirmed", "logConfirmed")
    /\ UNCHANGED <<logs, swaps>>
    /\ ProcessFrame

\* logOrderStatus('confirmed'), then processOrder returns
LogConfirmed(id) == \E e \in ExecsOf(id) :
    /\ e.pc = "logConfirmed"
    /\ logOrderStatus(e.id, "confirmed")
    /\ CompleteJob(e)
    /\ UNCHANGED <<orders, notifs, lastMessage, received, swaps>>
    /\ ProcessFrame

\* a catch block that records the failure without counting it
RetryCountKept(currentRetryCount) == currentRetryCount

\* catch block: the retryCount written, (currentOrder?.retryCount ?? 0) + 1
NextRetryCount(currentRetryCount) == currentRetryCount + 1

\* catch block: prisma.order.findUnique reads the current retryCount
CatchFind(id) == \E e \in ExecsOf(id) :
    /\ e.pc = "catchFind"
    /\ \/ /\ ~dbUp                              \* the catch block itself throws
          /\ FailJob(e)
       \/ /\ dbUp
          /\ active' = (active \ {e}) \cup
                {[e EXCEPT !.pc = "catchUpdate",
                           !.retryCount = IF OrderExists(e.id)
                                          THEN orders[e.id].retryCount ELSE 0]}
          /\ UNCHANGED <<enqueued, rejected, wait, delayed, failedJobs>>
    /\ UNCHANGED <<orders, logs, notifs, lastMessage, received, swaps>>
    /\ ProcessFrame

\* a catch block that rethrows once it has recorded the failure
RethrowAfterFailedLog(e) == FailJob(e)

\* what processOrder does once the 'failed' log entry is written: it returns
AfterFailedLog(e) == CompleteJob(e)

\* catch block: prisma.order.update to 'failed' (it throws when the database is
\* unreachable or the record does not exist), then the 'failed' broadcast
CatchUpdate(id) == \E e \in ExecsOf(id) :
    /\ e.pc = "catchUpdate"
    /\ \/ /\ ~dbUp \/ ~OrderExists(e.id)
          /\ FailJob(e)
          /\ UNCHANGED <<orders, notifs, lastMessage, received>>
       \/ /\ dbUp /\ OrderExists(e.id)
          /\ orders' = [orders EXCEPT ![e.id].status = "failed",
                                      ![e.id].errorMessage = e.error,
                                      ![e.id].retryCount = NextRetryCount(e.retryCount)]
          /\ broadcastOrderUpdate(e.id, [Message("failed") EXCEPT !.error = e.error])
          /\ GotoAfter(e, "failed", "logFailed")
    /\ UNCHANGED <<logs, swaps>>
    /\ ProcessFrame

\* catch block: logOrderStatus('failed'), then processOrder returns
LogFailed(id) == \E e \in ExecsOf(id) :
    /\ e.pc = "logFailed"
    /\ logOrderStatus(e.id, "failed")
    /\ AfterFailedLog(e)
    /\ UNCHANGED <<orders, notifs, lastMessage, received, swaps>>
    /\ ProcessFrame

(* ------------------------- WebSocket route ----------------------------- *)

\* GET /api/orders/:orderId/ws: a new subscriber object is registered
Connect(h, o) ==
    /\ socket[h] = "idle"
    /\ Known(o)
    /\ requests < MaxRequests
    /\ requests' = requests + 1
    /\ socket' = [socket EXCEPT ![h] = "open"]
    /\ wsSubscribers' = subscribeToOrder(o, h)
    /\ UNCHANGED <<routerVars, initialized, orders, creating, logs, queueVars, received,
                   notifs, lastMessage, swaps, dbUp>>

\* OrderService.unsubscribeFromOrder, called by the socket's close handler
Close(h) ==
    /\ socket[h] \in {"open", "broken"}
    /\ socket' = [socket EXCEPT ![h] = "closed"]
    /\ wsSubscribers' =
          IF \E o \in JobIds : h \in SubscribersOf(o)
          THEN unsubscribeFromOrder(CHOOSE o \in JobIds : h \in SubscribersOf(o), h)
          ELSE wsSubscribers
    /\ UNCHANGED <<routerVars, initialized, orders, creating, logs, queueVars, received,
                   notifs, lastMessage, swaps, dbUp, requests>>

(* --------------------------- persistence ------------------------------- *)

\* the database becomes unreachable: every persistence call throws
DbDown ==
    /\ dbUp /\ requests < MaxRequests
    /\ dbUp' = FALSE
    /\ requests' = requests + 1
    /\ UNCHANGED <<routerVars, initialized, orders, creating, logs, queueVars, hubVars,
                   notifs, lastMessage, swaps>>

\* the database is reachable again
DbBack ==
    /\ ~dbUp
    /\ dbUp' = TRUE
    /\ UNCHANGED <<routerVars, initialized, orders, creating, logs, queueVars, hubVars,
                   notifs, lastMessage, swaps, requests>>

(* --------------- the subscriber registry, driven on its own ------------ *)

\* OrderService.subscribeToOrder with a new subscriber
Subscribe(h, o) ==
    /\ socket[h] = "idle"
    /\ socket' = [socket EXCEPT ![h] = "open"]
    /\ wsSubscribers' = subscribeToOrder(o, h)
    /\ UNCHANGED <<routerVars, initialized, orders, creating, logs, queueVars, received,
                   notifs, lastMessage, swaps, dbUp, requests>>

\* a connection is lost: sends on it throw from now on; its close handler has
\* not run yet
Break(h) ==
    /\ socket[h] = "open"
    /\ socket' = [socket EXCEPT ![h] = "broken"]
    /\ UNCHANGED <<routerVars, initialized, orders, creating, logs, queueVars,
                   wsSubscribers, received, notifs, lastMessage, swaps, dbUp, requests>>

\* OrderService.broadcastOrderUpdate with the next status of a pass
Publish(o) ==
    /\ Len(notifs[o]) < MaxMessages
    /\ broadcastOrderUpdate(o, Message(StatusFlow[Len(notifs[o]) + 1]))
    /\ UNCHANGED <<routerVars, initialized, orders, creating, logs, queueVars,
                   wsSubscribers, socket, swaps, dbUp, requests>>

HubNext ==
    \/ \E h \in HubHandles, o \in OrderIds : Subscribe(h, o)
    \/ \E h \in HubHandles : Break(h)
    \/ \E h \in HubHandles : Close(h)
    \/ \E o \in OrderIds : Publish(o)

HubSpec == InitWith(HubHandles) /\ [][HubNext]_vars

(* ------------- the subscriber registry, called on its own -------------- *)

\* subscribeToOrder is called with any handle and any order identifier
SubscribeCall(h, o) ==
    /\ wsSubscribers' = subscribeToOrder(o, h)
    /\ registryCall' = [op |-> "subscribe", orderId |-> o, subscriber |-> h,
                        before |-> wsSubscribers]
    /\ UNCHANGED <<quoteCall, tieWinners, slippageCall, harnessVars, initialized, orders, creating,
                   logs, queueVars, socket, received, notifs, lastMessage, swaps, dbUp, requests>>

\* unsubscribeFromOrder is called with any handle and any order identifier
UnsubscribeCall(h, o) ==
    /\ wsSubscribers' = unsubscribeFromOrder(o, h)
    /\ registryCall' = [op |-> "unsubscribe", orderId |-> o, subscriber |-> h,
                        before |-> wsSubscribers]
    /\ UNCHANGED <<quoteCall, tieWinners, slippageCall, harnessVars, initialized, orders, creating,
                   logs, queueVars, socket, received, notifs, lastMessage, swaps, dbUp, requests>>

RegistryNext ==
    \/ \E h \in HubHandles, o \in JobIds : SubscribeCall(h, o)
    \/ \E h \in HubHandles, o \in JobIds : UnsubscribeCall(h, o)

RegistrySpec == InitWith(HubHandles) /\ [][RegistryNext]_vars

(* ------------------- MockDexRouter, called on its own ------------------ *)

\* getOptimalQuote is called: both provider calls are started
CallOptimalQuote ==
    /\ quoteCall.pc # "pending"
    /\ quoteCall' = [NoQuoteCall EXCEPT !.pc = "pending"]
    /\ UNCHANGED <<serviceVars, tieWinners, slippageCall, callVars>>

\* a provider call settles. A rejection rejects Promise.all at once and
\* getOptimalQuote throws that error; the last quote to arrive resolves
\* Promise.all and the selection is made and returned
ProviderSettles(i, out) ==
    /\ quoteCall.pc = "pending"
    /\ quoteCall.calls[i].state = "pending"
    /\ out \in ProviderOutcomes(Providers[i])
    /\ LET c == [quoteCall EXCEPT !.calls[i] = out,
                                  !.first = IF @ = 0 THEN i ELSE @]
       IN IF PromiseAllRejected(c.calls)
          THEN /\ quoteCall' = [c EXCEPT !.pc = "threw", !.error = out.dex]
               /\ UNCHANGED tieWinners
          ELSE IF PromiseAllResolved(c.calls)
          THEN LET res == PromiseAllResults(c)
                   sel == getOptimalQuote(DexQuote(res[1]), DexQuote(res[2]))
               IN /\ quoteCall' = [c EXCEPT !.pc = "returned", !.quote = sel.quote,
                                            !.altQuote = sel.altQuote]
                  /\ tieWinners' = IF res[1].price = res[2].price
                                   THEN tieWinners \cup {<<c.first, sel.quote.dex>>}
                                   ELSE tieWinners
          ELSE /\ quoteCall' = c
               /\ UNCHANGED tieWinners
    /\ UNCHANGED <<serviceVars, slippageCall, callVars>>

\* validateSlippage is called
ValidateSlippage(expectedPrice, executedPrice, slippageTolerance) ==
    /\ slippageCall' =
          [called |-> TRUE, expected |-> expectedPrice, executed |-> executedPrice,
           tolerance |-> slippageTolerance,
           result |-> validateSlippage(expectedPrice, executedPrice, slippageTolerance)]
    /\ UNCHANGED <<serviceVars, quoteCall, tieWinners, callVars>>

RouterNext ==
    \/ CallOptimalQuote
    \/ \E i \in DOMAIN Providers : \E out \in ProviderOutcomes(Providers[i]) :
          ProviderSettles(i, out)
    \/ \E expectedPrice \in ExpectedPrices, executedPrice \in ExecutedPrices,
          slippageTolerance \in Tolerances :
          ValidateSlippage(expectedPrice, executedPrice, slippageTolerance)

RouterSpec == Init /\ [][RouterNext]_vars

(* ---------------------------------------------------------------------- *)

Next ==
    \/ Initialize
    \/ CreateOrder
    \/ \E o \in OrderIds : CreateOrderLog(o)
    \/ \E o \in JobIds : EnqueueOrder(o)
    \/ StartJob
    \/ \E id \in JobIds : PromoteDelayed(id)
    \/ \E id \in JobIds : Lookup(id)
    \/ \E id \in JobIds : LogRouting(id)
    \/ \E id \in JobIds : Quote(id, CalmPrices)
    \/ \E id \in JobIds : LogBuilding(id)
    \/ \E id \in JobIds : LogSubmitted(id)
    \/ \E id \in JobIds : ExecuteSwap(id, CalmTxHashes)
    \/ \E id \in JobIds : UpdateConfirmed(id)
    \/ \E id \in JobIds : LogConfirmed(id)
    \/ \E id \in JobIds : CatchFind(id)
    \/ \E id \in JobIds : CatchUpdate(id)
    \/ \E id \in JobIds : LogFailed(id)
    \/ \E h \in Handles, o \in JobIds : Connect(h, o)
    \/ \E h \in Handles : Close(h)
    \/ DbDown
    \/ DbBack

Spec == Init /\ [][Next]_vars

\* one step of processOrder for the job of an identifier, the mock market
\* answering with the given prices and hashes
WorkWith(id, prices, hashes) ==
    \/ Lookup(id) \/ LogRouting(id) \/ Quote(id, prices) \/ LogBuilding(id)
    \/ LogSubmitted(id) \/ ExecuteSwap(id, hashes) \/ UpdateConfirmed(id)
    \/ LogConfirmed(id) \/ CatchFind(id) \/ CatchUpdate(id) \/ LogFailed(id)

Work(id) == WorkWith(id, CalmPrices, CalmTxHashes)

\* one step of the worker
WorkerStep ==
    StartJob \/ \E id \in JobIds : PromoteDelayed(id) \/ Work(id)

\* the worker keeps running: while it can take a waiting job, promote a job
\* whose backoff has elapsed or resume a processOrder whose await has settled,
\* it eventually does one of these
WorkerFairness == WF_vars(WorkerStep)

\* the order pipeline without observers: every action but the WebSocket route's
PipelineNext ==
    \/ Initialize
    \/ CreateOrder
    \/ \E o \in OrderIds : CreateOrderLog(o)
    \/ \E o \in JobIds : EnqueueOrder(o)
    \/ StartJob
    \/ \E id \in JobIds : PromoteDelayed(id)
    \/ \E id \in JobIds : Work(id)
    \/ DbDown
    \/ DbBack

FairSpec == Init /\ [][PipelineNext]_vars /\ WorkerFairness

\* the order pipeline without observers, the mock market answering with the
\* given prices and hashes
MarketNext(prices, hashes) ==
    \/ Initialize
    \/ CreateOrder
    \/ \E o \in OrderIds : CreateOrderLog(o)
    \/ \E o \in JobIds : EnqueueOrder(o)
    \/ StartJob
    \/ \E id \in JobIds : PromoteDelayed(id)
    \/ \E id \in JobIds : WorkWith(id, prices, hashes)
    \/ DbDown
    \/ DbBack

\* the order pipeline with a market whose prices vary
DataNext == MarketNext(MovingPrices, CalmTxHashes)

DataSpec == Init /\ [][DataNext]_vars

\* the order pipeline with a market whose transaction hashes vary
HashNext == MarketNext(CalmPrices, TxHashes)

HashSpec == Init /\ [][HashNext]_vars

(* ------ the registry with working connections and publications -------- *)

\* the order of the connection a handle stands for: the route subscribes
\* and unsubscribes a socket for the one order identifier of its URL
SessionOrder(h) == IF h <= 2 THEN 1 ELSE 2

\* calls of subscribeToOrder and unsubscribeFromOrder for handles whose
\* connection works, between publications: a handle can be subscribed a
\* second time, and unsubscribed while its connection stays open
SessionNext ==
    \/ \E h \in HubHandles : Subscribe(h, SessionOrder(h))
    \/ \E h \in HubHandles : socket[h] = "open" /\ SubscribeCall(h, SessionOrder(h))
    \/ \E h \in HubHandles : socket[h] = "open" /\ UnsubscribeCall(h, SessionOrder(h))
    \/ \E o \in OrderIds : Publish(o)

SessionSpec == InitWith(HubHandles) /\ [][SessionNext]_vars

(* ------------------------------ HTTP routes ---------------------------- *)

\* what the HTTP routes leave alone besides the service's state
routeFrame == <<quoteCall, tieWinners, slippageCall, registryCall, observer, server>>

\* reply.code(code).send(...): the handler has answered
Reply(p, code, error) == [p EXCEPT !.pc = "replied", !.code = code, !.error = error]

\* POST /api/orders/execute up to its first await: createOrderSchema.parse;
\* with issues the catch answers 400 with the first message, else createOrder
\* is called and issues its insert
PostExecute(body) ==
    /\ post.pc \in {"idle", "replied"}
    /\ NextOrderId \in OrderIds
    /\ requests < MaxRequests
    /\ requests' = requests + 1
    /\ LET parsed == createOrderSchema(body)
           request == [NoPost EXCEPT !.body = body] IN
       post' = IF parsed.ok
               THEN [request EXCEPT !.pc = "create", !.slippage = parsed.slippage]
               ELSE Reply(request, 400, parsed.error)
    /\ UNCHANGED <<routeFrame, lookup, initialized, orders, creating, logs, queueVars,
                   hubVars, notifs, lastMessage, swaps, dbUp>>

\* createOrder's insert completes: the order is persisted; or it throws
\* because the database is unreachable, and the catch answers 400
PostCreate ==
    /\ post.pc = "create"
    /\ IF dbUp
       THEN /\ insertOrder(NextOrderId, post.slippage)
            /\ post' = [post EXCEPT !.pc = "log", !.orderId = NextOrderId]
       ELSE /\ post' = Reply(post, 400, "database")
            /\ UNCHANGED <<orders, creating>>
    /\ UNCHANGED <<routeFrame, lookup, initialized, logs, queueVars, hubVars, notifs,
                   lastMessage, swaps, dbUp, requests>>

\* createOrder writes its log entry and returns; the handler calls enqueueOrder
PostLog ==
    /\ post.pc = "log"
    /\ logOrderStatus(post.orderId, "pending")
    /\ creating' = creating \ {post.orderId}
    /\ post' = [post EXCEPT !.pc = "enqueue"]
    /\ UNCHANGED <<routeFrame, lookup, initialized, orders, queueVars, hubVars, notifs,
                   lastMessage, swaps, dbUp, requests>>

\* enqueueOrder returns and the handler answers 200 with the order; or it
\* throws, 'Queue not initialized' or because queue.add was rejected (Redis
\* does not answer), and the catch answers 400: nothing removes the order
PostEnqueue(fault) ==
    /\ post.pc = "enqueue"
    /\ IF QueueReady /\ fault
       THEN /\ requests < MaxRequests
            /\ requests' = requests + 1
            /\ post' = Reply(post, 400, "redis")
            /\ UNCHANGED <<enqueued, rejected, wait>>
       ELSE /\ addJob(post.orderId)
            /\ post' = IF QueueReady THEN Reply(post, 200, "none")
                       ELSE Reply(post, 400, "Queue not initialized")
            /\ UNCHANGED requests
    /\ UNCHANGED <<routeFrame, lookup, initialized, orders, creating, logs, delayed,
                   failedJobs, active, hubVars, notifs, lastMessage, swaps, dbUp>>

\* the reply of GET /api/orders/:orderId: 404 when getOrder returns null, 500
\* when it throws, else the order
GetOrderReply(o) ==
    [orderId |-> o,
     code |-> IF ~dbUp THEN 500 ELSE IF ~OrderExists(o) THEN 404 ELSE 200,
     status |-> IF dbUp /\ OrderExists(o) THEN orders[o].status ELSE "none"]

\* GET /api/orders/:orderId
GetOrder(o) ==
    /\ requests < MaxRequests
    /\ requests' = requests + 1
    /\ lookup' = GetOrderReply(o)
    /\ UNCHANGED <<routeFrame, post, initialized, orders, creating, logs, queueVars,
                   hubVars, notifs, lastMessage, swaps, dbUp>>

RouteNext ==
    \/ Initialize
    \/ \E body \in Bodies : PostExecute(body)
    \/ PostCreate
    \/ PostLog
    \/ \E fault \in BOOLEAN : PostEnqueue(fault)
    \/ \E o \in JobIds : GetOrder(o)
    \/ DbDown
    \/ DbBack

RouteSpec == Init /\ [][RouteNext]_vars

(* ------------- WebSocket route with the initial status ----------------- *)

\* what the WebSocket route leaves alone besides the service's state
observerFrame == <<quoteCall, tieWinners, slippageCall, registryCall, post, lookup, server>>

\* GET /api/orders/:orderId/ws up to the await in sendInitialStatus: the
\* subscriber is registered, then the 'connected' message is sent and
\* getOrder is called
Attach(h, o) ==
    /\ observer.pc = "idle"
    /\ socket[h] = "idle"
    /\ Known(o)
    /\ requests < MaxRequests
    /\ requests' = requests + 1
    /\ socket' = [socket EXCEPT ![h] = "open"]
    /\ wsSubscribers' = subscribeToOrder(o, h)
    /\ observer' = [NoObserver EXCEPT !.pc = "attached", !.handle = h, !.orderId = o]
    /\ UNCHANGED <<observerFrame, initialized, orders, creating, logs, queueVars, received,
                   notifs, lastMessage, swaps, dbUp>>

\* what sendInitialStatus has sent when it ends: the persisted status of the
\* order, after whatever broadcastOrderUpdate delivered to the handle since
\* it was registered
SnapshotSent(status) ==
    [observer EXCEPT !.pc = "done", !.snapshot = status,
                     !.liveBefore = received[observer.handle]]

\* sendInitialStatus after its await: getOrder has returned and the current
\* status of the order is sent; nothing is sent when the order does not
\* exist, when getOrder throws or when the socket is closed
SendInitialStatus ==
    /\ observer.pc = "attached"
    /\ observer' = IF /\ dbUp /\ OrderExists(observer.orderId)
                      /\ socket[observer.handle] = "open"
                   THEN SnapshotSent(orders[observer.orderId].status)
                   ELSE [observer EXCEPT !.pc = "done"]
    /\ UNCHANGED <<observerFrame, serviceVars>>

ObserverNext ==
    \/ Initialize
    \/ CreateOrder
    \/ \E o \in OrderIds : CreateOrderLog(o)
    \/ \E o \in JobIds : EnqueueOrder(o)
    \/ StartJob
    \/ \E id \in JobIds : PromoteDelayed(id)
    \/ \E id \in JobIds : Work(id)
    \/ \E h \in Handles, o \in JobIds : Attach(h, o)
    \/ SendInitialStatus
    \/ \E h \in Handles : Close(h)
    \/ DbDown
    \/ DbBack

ObserverSpec == Init /\ [][ObserverNext]_vars

(* ----------------------- main and gracefulShutdown --------------------- *)

\* what main and gracefulShutdown leave alone besides the service's state
serverFrame == <<quoteCall, tieWinners, slippageCall, registryCall, post, lookup, observer>>

\* the steps of the process, in the order main and gracefulShutdown take them
ServerPhases == <<"created", "listening", "appClosing", "workerClosing", "queueClosed",
                  "dbClosed", "exited">>

PhaseOf(phase) == CHOOSE i \in DOMAIN ServerPhases : ServerPhases[i] = phase

\* a main that starts to listen without waiting for the queue
ListenAtOnce == TRUE

\* main: `await queueService.initialize()` has returned when the routes are
\* registered and app.listen is called
ListenReached == initialized

\* main: app.listen; the server accepts requests
Listen ==
    /\ server = "created"
    /\ ListenReached
    /\ server' = "listening"
    /\ UNCHANGED <<serverFrame, serviceVars>>

\* gracefulShutdown on SIGTERM or SIGINT: app.close() is called, the server
\* accepts no new request
AppClose ==
    /\ server = "listening"
    /\ server' = "appClosing"
    /\ UNCHANGED <<serverFrame, serviceVars>>

\* app.close() has returned, the requests in flight being answered;
\* queueService.close() calls worker.close(): the worker takes no new job
AppClosed ==
    /\ server = "appClosing"
    /\ post.pc \in {"idle", "replied"}
    /\ server' = "workerClosing"
    /\ UNCHANGED <<serverFrame, serviceVars>>

\* worker.close() has returned, the jobs it was processing being finished;
\* queue.close() and queueEvents.close() follow
QueueClosed ==
    /\ server = "workerClosing"
    /\ active = {}
    /\ server' = "queueClosed"
    /\ UNCHANGED <<serverFrame, serviceVars>>

\* gracefulShutdown: closePrisma
ClosePrisma ==
    /\ server = "queueClosed"
    /\ server' = "dbClosed"
    /\ UNCHANGED <<serverFrame, serviceVars>>

\* gracefulShutdown: closeRedis and process.exit
Exit ==
    /\ server = "dbClosed"
    /\ server' = "exited"
    /\ UNCHANGED <<serverFrame, serviceVars>>

\* the worker fetches jobs from its creation until worker.close() is called
WorkerFetches == server \in {"created", "listening", "appClosing"}

\* request bodies sent to the running server: one that is valid and one that
\* is not
ServerBodies == {b \in Bodies : b.tokenIn = "SOL" /\ b.tokenOut = "USDC" /\ b.slippage = <<>>}

ServerNext ==
    \/ Initialize
    \/ Listen
    \/ \E body \in ServerBodies : server = "listening" /\ PostExecute(body)
    \/ PostCreate
    \/ PostLog
    \/ \E fault \in BOOLEAN : PostEnqueue(fault)
    \/ WorkerFetches /\ StartJob
    \/ \E id \in JobIds : Work(id)
    \/ AppClose
    \/ AppClosed
    \/ QueueClosed
    \/ ClosePrisma
    \/ Exit

ServerSpec == Init /\ [][ServerNext]_vars

(* ============================== claims ================================= *)

Last(seq) == seq[Len(seq)]

Chain == <<"pending", "routing", "building", "submitted", "confirmed">>
Rank(status) == CHOOSE i \in 1..Len(Chain) : Chain[i] = status
InChain(status) == \E i \in 1..Len(Chain) : Chain[i] = status
Terminal(status) == status \in {"confirmed", "failed"}

\* a step from status a to status b that goes backward
Backward(a, b) ==
    \/ Terminal(a) /\ b # a
    \/ InChain(a) /\ InChain(b) /\ Rank(b) < Rank(a)

\* the number of jobs the queue holds for an identifier
JobCount(id) ==
    Cardinality({i \in DOMAIN wait : wait[i].id = id})
        + Cardinality({j \in delayed : j.id = id})
        + Cardinality({j \in failedJobs : j.id = id})
        + Cardinality(ExecsOf(id))

\* every job of the queue, as (id, failed attempts, delays waited so far)
JobViews ==
    {[id |-> wait[i].id, attemptsMade |-> wait[i].attemptsMade,
      delays |-> wait[i].delays] : i \in DOMAIN wait}
    \cup {[id |-> j.id, attemptsMade |-> j.attemptsMade, delays |-> j.delays] :
            j \in delayed \cup failedJobs \cup active}

\* the job of identifier id was handed back to the queue as failed in this step
ThrownToQueue(id) ==
    \/ \E j \in delayed' : j.id = id /\ j \notin delayed
    \/ \E j \in failedJobs' : j.id = id /\ j \notin failedJobs

(* C1: an order's status never moves backward along pending < routing <     *)
(* building < submitted < confirmed, neither the persisted status nor the   *)
(* statuses of successive notifications (a terminal status is never left).  *)
C1_StatusNeverMovesBackward ==
    [][\A o \in OrderIds :
          /\ ~Backward(orders[o].status, orders'[o].status)
          /\ (notifs[o] # <<>> /\ notifs'[o] # notifs[o])
                => ~Backward(Last(notifs[o]), Last(notifs'[o]))]_vars

(* C2: what a subscriber receives is strictly increasing along the chain    *)
(* with no status skipped between two received ones, possibly ended by      *)
(* failed, and nothing follows a terminal status. (The claim also asks for  *)
(* the sequence to start at pending; this statement does not.)              *)
C2_SubscriberSeesIncreasingPrefix ==
    \A h \in Handles : \A i \in 1..(Len(received[h]) - 1) :
        LET a == received[h][i]
            b == received[h][i + 1]
        IN /\ ~Terminal(a)
           /\ b = "failed" \/ Rank(b) = Rank(a) + 1

(* C3: at most one job exists per identifier, so no two executions of       *)
(* processOrder for the same orderId are active at the same time, however   *)
(* often enqueueOrder is called for it.                                     *)
C3_SingleJobPerIdentifier ==
    \A id \in JobIds : JobCount(id) <= 1 /\ Cardinality(ExecsOf(id)) <= 1

\* enqueueOrder was called twice for an order whose first pass is still running
C3_Witness ==
    \E o \in OrderIds :
        /\ enqueued[o] >= 2
        /\ notifs[o] = <<"routing", "building", "submitted">>
        /\ \E e \in active : e.id = o /\ e.pc = "swap"

(* C4: executeSwap is invoked, and a txHash generated, at most once per     *)
(* order over any sequence of enqueueOrder calls and queue retries.         *)
C4_SwapExactlyOnce ==
    \A o \in OrderIds : swaps[o] <= 1

(* C5: the number of jobs being processed never exceeds the configured      *)
(* concurrency.                                                             *)
C5_ActiveAtMostConcurrency ==
    Cardinality(active) <= QUEUE_CONCURRENCY

\* the pool is full while more jobs are waiting
C5_Witness ==
    Cardinality(active) = QUEUE_CONCURRENCY /\ wait # <<>>

(* C6: whenever a notification is published for an order, the order's       *)
(* persisted status already equals the notified status.                     *)
C6_PersistedBeforePublished ==
    [][\A o \in OrderIds :
          notifs'[o] # notifs[o] => orders'[o].status = Last(notifs'[o])]_vars

\* the log entries of an order that were written by processOrder
TransitionLog(o) == SelectSeq(logs[o], LAMBDA status : status # "pending")

(* C7: once no processing of an order is under way, its log holds exactly   *)
(* one entry per traversed state: the entries written by processOrder are   *)
(* the notified statuses, in order, none missing and none twice.            *)
C7_OneLogEntryPerTransition ==
    \A o \in OrderIds :
        ExecsOf(o) = {}
            => /\ TransitionLog(o) = notifs[o]
               /\ \A i, k \in DOMAIN notifs[o] : notifs[o][i] = notifs[o][k] => i = k

C12_TerminalOrderIsLeftAlone ==
    [][\A o \in OrderIds :
          Terminal(orders[o].status)
              => /\ orders'[o] = orders[o]
                 /\ ExecsOf(o)' \subseteq ExecsOf(o) \/ ExecsOf(o) # {}]_vars

(* C13: getOptimalQuote returns as quote the provider quote with the       *)
(* higher price and as altQuote the other one: quote.price >= altQuote.price,*)
(* the two come from different providers, and they are the two quotes the   *)
(* providers returned.                                                      *)
C13_QuoteIsTheHigherPrice ==
    quoteCall.pc = "returned" =>
        /\ quoteCall.quote.price >= quoteCall.altQuote.price
        /\ quoteCall.quote.dex # quoteCall.altQuote.dex
        /\ {quoteCall.quote, quoteCall.altQuote}
              = {DexQuote(quoteCall.calls[1]), DexQuote(quoteCall.calls[2])}
        /\ \A i \in DOMAIN Providers : quoteCall.quote.price >= quoteCall.calls[i].price

\* raydium quoted more than meteora, and meteora's quote arrived first
C13_Witness ==
    /\ quoteCall.pc = "returned"
    /\ quoteCall.first = 2
    /\ quoteCall.calls[1].price > quoteCall.calls[2].price
    /\ quoteCall.quote.dex = "raydium"

(* C14: on equal prices getOptimalQuote selects the same provider on every  *)
(* call, whichever provider call completed first.                           *)
C14_TieBreakIsFixed ==
    /\ \A a, b \in tieWinners : a[2] = b[2]
    /\ (quoteCall.pc = "returned" /\ quoteCall.calls[1].price = quoteCall.calls[2].price)
          => quoteCall.quote.dex = "meteora"

\* ties were decided both with raydium and with meteora completing first
C14_Witness ==
    /\ quoteCall.pc = "returned"
    /\ quoteCall.calls[1].price = quoteCall.calls[2].price
    /\ \E a, b \in tieWinners : a[1] = 1 /\ b[1] = 2

(* C15: when a provider's quote call fails, getOptimalQuote fails as a      *)
(* whole: processOrder goes to its catch block with the provider's error,   *)
(* no building notification is published and nothing of the attempt is      *)
(* routed with the remaining quote; the catch block, its writes succeeding, *)
(* marks the order failed with that error message.                          *)
C15_ProviderFailureFailsRouting ==
    [][\A e \in active :
          /\ (e.pc = "quote" /\ e \notin active') =>
                \E f \in ExecsOf(e.id)' :
                    IF \E i \in DOMAIN f.providers : f.providers[i] = "rejected"
                    THEN /\ f.pc = "catchFind" /\ f.error = "provider"
                         /\ notifs' = notifs /\ received' = received
                         /\ swaps' = swaps
                    ELSE f.pc = "logBuilding" /\ f.error = "none"
          /\ (\E i \in DOMAIN e.providers : e.providers[i] = "rejected") =>
                /\ e.pc \in {"catchFind", "catchUpdate", "logFailed"}
                /\ e.error = "provider"
                /\ (e.pc = "catchUpdate" /\ dbUp /\ OrderExists(e.id) /\ e \notin active') =>
                      /\ orders'[e.id].status = "failed"
                      /\ orders'[e.id].errorMessage = "provider"
                      /\ Last(notifs'[e.id]) = "failed"]_vars

\* meteora's quote call failed and the order ended as failed with that error
C15_Witness ==
    \E o \in OrderIds :
        /\ orders[o].status = "failed" /\ orders[o].errorMessage = "provider"
        /\ notifs[o] = <<"routing", "failed">>
        /\ swaps[o] = 0
        /\ ~JobExists(o)

\* |a - b|
Distance(a, b) == IF a >= b THEN a - b ELSE b - a

(* C16: for a positive expectedPrice, validateSlippage returns true exactly *)
(* when |expectedPrice - executedPrice| <= tolerance * expectedPrice (the   *)
(* tolerance in hundredths); so equal prices pass for every tolerance >= 0, *)
(* tolerance 0 passes only equal prices, (100, 50, 0.1) fails and           *)
(* (100, 95, 0.1) passes.                                                   *)
C16_SlippageWithinTolerance ==
    LET c == slippageCall IN
    (c.called /\ c.expected > 0) =>
        /\ c.result = (Distance(c.expected, c.executed) * 100 <= c.tolerance * c.expected)
        /\ (c.executed = c.expected /\ c.tolerance >= 0) => c.result
        /\ (c.tolerance = 0 /\ c.result) => c.executed = c.expected
        /\ (c.expected = 100 /\ c.executed = 50 /\ c.tolerance = 10) => ~c.result
        /\ (c.expected = 100 /\ c.executed = 95 /\ c.tolerance = 10) => c.result

\* validateSlippage(100, 95, 0.1) was called and returned true
C16_Witness ==
    /\ slippageCall.called
    /\ slippageCall.expected = 100 /\ slippageCall.executed = 95
    /\ slippageCall.tolerance = 10
    /\ slippageCall.result

(* C17: validateSlippage returns false whenever expectedPrice is zero,      *)
(* whatever the executed price and the tolerance, validateSlippage(0, 0, t) *)
(* included.                                                                *)
C17_ZeroExpectedPriceFails ==
    (slippageCall.called /\ slippageCall.expected = 0) => ~slippageCall.result

\* validateSlippage(0, 0, 0.5) was called and returned false
C17_Witness ==
    /\ slippageCall.called
    /\ slippageCall.expected = 0 /\ slippageCall.executed = 0
    /\ slippageCall.tolerance = 50
    /\ ~slippageCall.result

\* a message was published for order o in this step
Published(o) == notifs'[o] # notifs[o]

(* C18: when a message is published for an order and the send of one        *)
(* subscribed handle throws, every other handle subscribed to the order     *)
(* still receives the message, and the publish completes: handles whose     *)
(* send throws receive nothing and nothing else changes.                    *)
C18_FailedSendDoesNotStopOthers ==
    [][\A o \in OrderIds :
          Published(o) =>
              /\ notifs'[o] = Append(notifs[o], Last(notifs'[o]))
              /\ \A h \in DOMAIN received :
                    received'[h] =
                        IF h \in SubscribersOf(o) /\ socket[h] = "open"
                        THEN Append(received[h], Last(notifs'[o]))
                        ELSE received[h]]_vars

\* of two subscribers of an order the first has a lost connection, and the
\* second has received every message published
C18_Witness ==
    \E o \in OrderIds :
        /\ SubscribersOf(o) = {1, 2}
        /\ socket[1] = "broken" /\ socket[2] = "open"
        /\ Len(notifs[o]) = MaxMessages
        /\ received[2] = notifs[o]
        /\ received[1] = <<>>

(* C19: a handle whose delivery fails during a publish is removed from the  *)
(* order's subscriber set by that publish.                                  *)
C19_FailedHandleIsRemoved ==
    [][\A o \in OrderIds :
          Published(o) =>
              \A h \in SubscribersOf(o) :
                  socket[h] = "broken" => h \notin SubscribersOf(o)']_vars

\* whether seq is a run of consecutive elements of whole
IsSegment(seq, whole) ==
    \E k \in 0..Len(whole) :
        /\ k + Len(seq) <= Len(whole)
        /\ \A i \in 1..Len(seq) : seq[i] = whole[k + i]

(* C20: a handle receives the messages of its order in the order in which   *)
(* they were published: what it has received is a run of consecutive        *)
(* published messages, and for a handle that is still subscribed with a     *)
(* working connection the run ends with the latest message.                 *)
C20_ReceivedInPublishOrder ==
    \A h \in DOMAIN received :
        /\ \E o \in OrderIds : IsSegment(received[h], notifs[o])
        /\ \A o \in OrderIds :
              (h \in SubscribersOf(o) /\ socket[h] = "open") =>
                  \E k \in 0..Len(notifs[o]) :
                      received[h] = SubSeq(notifs[o], k + 1, Len(notifs[o]))

\* a subscriber has received two messages, in the order they were published
C20_Witness ==
    \E h \in DOMAIN received, o \in OrderIds :
        /\ h \in SubscribersOf(o) /\ socket[h] = "open"
        /\ received[h] = <<"routing", "building">>
        /\ notifs[o] = received[h]

\* the Set the registry held for an order before the recorded call
SubscribersBefore == IF registryCall.orderId \in DOMAIN registryCall.before
                     THEN registryCall.before[registryCall.orderId] ELSE {}

(* C21: the subscriber registry never holds an order identifier mapped to   *)
(* an empty set of handles, whatever subscribeToOrder and                   *)
(* unsubscribeFromOrder calls were made; and unsubscribing the only handle  *)
(* of the only order leaves a registry with no entry at all.                *)
C21_NoEmptySubscriberSet ==
    /\ \A o \in DOMAIN wsSubscribers : wsSubscribers[o] # {}
    /\ (/\ registryCall.op = "unsubscribe"
        /\ DOMAIN registryCall.before = {registryCall.orderId}
        /\ SubscribersBefore = {registryCall.subscriber})
       => DOMAIN wsSubscribers = {}

\* the only handle of the only order has just been unsubscribed
C21_Witness ==
    /\ registryCall.op = "unsubscribe"
    /\ DOMAIN registryCall.before = {registryCall.orderId}
    /\ SubscribersBefore = {registryCall.subscriber}
    /\ DOMAIN wsSubscribers = {}

(* C22: a publication for an order that has no subscriber delivers nothing, *)
(* leaves the registry as it was, and does not disturb the processing of    *)
(* the order: the attempt moves on to its next step with the error it had.  *)
C22_PublishWithoutSubscribers ==
    [][\A o \in OrderIds :
          (Published(o) /\ SubscribersOf(o) = {}) =>
              /\ received' = received
              /\ wsSubscribers' = wsSubscribers
              /\ \E e \in active, f \in active' :
                    /\ e.id = o /\ f.id = o
                    /\ f.pc # e.pc /\ f.pc # "catchFind"
                    /\ f.error = e.error]_vars

\* an order without subscriber has been published while a handle is
\* subscribed to another order, and its attempt goes on
C22_Witness ==
    \E o \in OrderIds, x \in OrderIds, h \in DOMAIN socket :
        /\ x # o
        /\ SubscribersOf(o) = {}
        /\ h \in SubscribersOf(x) /\ socket[h] = "open" /\ received[h] = <<>>
        /\ notifs[o] = <<"routing", "building">>
        /\ \E e \in active : e.id = o /\ e.pc = "logBuilding"

(* C23: unsubscribeFromOrder for a handle that is not subscribed to the     *)
(* order (never subscribed, already removed, or an order identifier the     *)
(* registry does not know) leaves the registry exactly as it was; so does   *)
(* repeating it in any state.                                               *)
C23_UnsubscribeAbsentIsNoOp ==
    /\ (registryCall.op = "unsubscribe" /\ registryCall.subscriber \notin SubscribersBefore)
           => wsSubscribers = registryCall.before
    /\ \A h \in HubHandles, o \in JobIds :
           h \notin SubscribersOf(o) => unsubscribeFromOrder(o, h) = wsSubscribers

\* a handle that is not subscribed to the order has been unsubscribed from it
\* while the registry holds another handle for that order
C23_Witness ==
    /\ registryCall.op = "unsubscribe"
    /\ registryCall.subscriber \notin SubscribersBefore
    /\ SubscribersBefore # {}
    /\ wsSubscribers = registryCall.before

\* unsubscribeFromOrder has been called for an order identifier without entry
C23_WitnessUnknownOrder ==
    /\ registryCall.op = "unsubscribe"
    /\ registryCall.orderId = UnknownId
    /\ UnknownId \notin DOMAIN registryCall.before
    /\ DOMAIN wsSubscribers # {}

\* a step in which an attempt records the order as failed
RecordedFailed(o) == Published(o) /\ Last(notifs'[o]) = "failed"

(* C24: the retry count of an order is 0 when the order is created and      *)
(* never decreases; it grows by exactly one in each step that records an    *)
(* attempt as failed, the first failed attempt of the order included, and   *)
(* in no other step: not in the step that records the order as confirmed.   *)
C24_RetryCountCountsFailedAttempts ==
    [][\A o \in OrderIds :
          /\ (~OrderExists(o) /\ orders'[o].exists) => orders'[o].retryCount = 0
          /\ OrderExists(o) =>
                /\ orders'[o].retryCount >= orders[o].retryCount
                /\ RecordedFailed(o) => orders'[o].retryCount = orders[o].retryCount + 1
                /\ ~RecordedFailed(o) => orders'[o].retryCount = orders[o].retryCount
                /\ orders'[o].status = "confirmed" =>
                       orders'[o].retryCount = orders[o].retryCount]_vars

\* an order whose first attempt failed and whose second attempt was confirmed:
\* its retry count is 1
C24_Witness ==
    \E o \in OrderIds :
        /\ orders[o].status = "confirmed"
        /\ orders[o].retryCount = 1
        /\ logs[o] # <<>> /\ Last(logs[o]) = "confirmed"

(* C24 as stated: the retry count is incremented only by a failed attempt   *)
(* that follows an earlier failed attempt of the order.                     *)
C24_IncrementOnlyAfterEarlierFailure ==
    [][\A o \in OrderIds :
          orders'[o].retryCount > orders[o].retryCount =>
              \E i \in DOMAIN notifs[o] : notifs[o][i] = "failed"]_vars

(* C25: once a selected provider is recorded on an order, no later step     *)
(* records another one: the column keeps the provider it was first given.   *)
C25_SelectedProviderNeverChanges ==
    [][\A o \in OrderIds :
          orders[o].selectedDex # "none" =>
              orders'[o].selectedDex = orders[o].selectedDex]_vars

(* C26: an order whose persisted status is confirmed has a transaction      *)
(* hash, an executed price and a selected provider; an order whose          *)
(* persisted status is failed has an error description.                     *)
C26_TerminalOrderHasItsFields ==
    \A o \in OrderIds :
        /\ orders[o].status = "confirmed" =>
              /\ orders[o].txHash \in TxHashes
              /\ orders[o].executedPrice > 0
              /\ orders[o].selectedDex \in {"raydium", "meteora"}
        /\ orders[o].status = "failed" => orders[o].errorMessage # "none"

\* one order is confirmed through raydium and another one is failed
C26_Witness ==
    \E o \in OrderIds, x \in OrderIds :
        /\ orders[o].status = "confirmed"
        /\ orders[o].selectedDex = "raydium"
        /\ orders[o].executedPrice = 26
        /\ orders[x].status = "failed"
        /\ orders[x].errorMessage = "slippage"

C28_TxHashesAreDistinct ==
    \A o \in OrderIds, x \in OrderIds :
        (o # x /\ orders[o].txHash # "none") => orders[o].txHash # orders[x].txHash

\* a step in which a call of createOrder returns the identifier of its order
CreateOrderReturns(o) == o \in creating /\ o \notin creating'

(* C29: when createOrder returns, the order it made is persisted with       *)
(* status pending and retry count 0, its log holds exactly one entry, for   *)
(* pending, and no job and no processing of the order exists.               *)
C29_CreatedOrderIsPendingAndLogged ==
    [][\A o \in OrderIds :
          CreateOrderReturns(o) =>
              /\ orders'[o].exists
              /\ orders'[o].status = "pending"
              /\ orders'[o].retryCount = 0
              /\ logs'[o] = <<"pending">>
              /\ o \notin HeldJobIds'
              /\ enqueued'[o] = 0 /\ notifs'[o] = <<>>]_vars

(* C30: enqueueOrder called before initialize fails with 'Queue not         *)
(* initialized' and adds no job: the call leaves the queue and every order  *)
(* as they were, the queue holds nothing as long as it is not initialized,  *)
(* and an identifier whose only calls were rejected is never processed.     *)
C30_EnqueueBeforeInitializeAddsNothing ==
    [][/\ rejected' # rejected =>
             /\ ~initialized
             /\ UNCHANGED <<enqueued, wait, delayed, failedJobs, active, orders, logs,
                            notifs, swaps>>
       /\ ~initialized' =>
             /\ wait' = <<>> /\ delayed' = {} /\ failedJobs' = {} /\ active' = {}
             /\ \A o \in JobIds : enqueued'[o] = 0
       /\ \A o \in rejected' :
             enqueued'[o] = 0 =>
                 /\ o \notin HeldJobIds'
                 /\ o \in OrderIds => notifs'[o] = <<>> /\ swaps'[o] = 0]_vars

\* an order whose enqueueOrder was rejected has never been processed, while an
\* order enqueued after initialize has
C30_Witness ==
    \E o \in OrderIds, x \in OrderIds :
        /\ o \in rejected /\ enqueued[o] = 0
        /\ notifs[o] = <<>>
        /\ initialized
        /\ enqueued[x] = 1 /\ notifs[x] # <<>>

\* what an attempt that succeeds publishes and calls, in that order
HappyTrail == <<"routing", "building", "submitted", "swap", "confirmed">>

IsPrefix(seq, whole) ==
    Len(seq) <= Len(whole) /\ \A i \in 1..Len(seq) : seq[i] = whole[i]

\* the trail of an attempt without its closing failed notification
Stem(trail) ==
    IF trail # <<>> /\ Last(trail) = "failed" THEN SubSeq(trail, 1, Len(trail) - 1)
    ELSE trail

(* C32: within one attempt the notifications and the executor call come in  *)
(* the order routing, building, submitted, executeSwap, confirmed, each at  *)
(* most once, and a failure stops the attempt: after a router failure only  *)
(* routing was published, after a slippage rejection only routing and       *)
(* building; executeSwap is called only after the slippage check passed,    *)
(* and nothing follows the failed notification.                             *)
C32_AttemptRunsInOrderAndStops ==
    \A e \in active :
        /\ IsPrefix(Stem(e.trail), HappyTrail)
        /\ Stem(e.trail) # e.trail => (e.error # "none" /\ Len(Stem(e.trail)) < 5)
        /\ e.error = "provider" => Stem(e.trail) = <<"routing">>
        /\ e.error = "slippage" => Stem(e.trail) = <<"routing", "building">>
        /\ Len(Stem(e.trail)) >= 3 =>
               validateSlippage(e.quote.price, e.quote.price, orders[e.id].slippage)
        /\ Len(Stem(e.trail)) >= 4 => swaps[e.id] >= 1

\* an attempt was stopped by the slippage check: it has published routing,
\* building and failed, and the executor was never called for the order
C32_Witness ==
    \E e \in active :
        /\ e.trail = <<"routing", "building", "failed">>
        /\ e.error = "slippage"
        /\ swaps[e.id] = 0

(* C33: executeSwap hands back the agreed price and the given provider, so  *)
(* an order that has just been recorded as confirmed holds as executed      *)
(* price the price of the winning quote of that attempt, which is the       *)
(* higher of the two provider prices, and as selected provider the winner.  *)
C33_ExecutedPriceIsWinningQuote ==
    \A e \in active :
        /\ e.result # NoResult =>
              /\ e.result.executedPrice = e.quote.price
              /\ e.result.dex = e.quote.dex
        /\ e.pc = "logConfirmed" =>
              /\ orders[e.id].executedPrice = e.quote.price
              /\ orders[e.id].selectedDex = e.quote.dex
              /\ e.quote.price >= e.altQuote.price
              /\ {e.quote.dex, e.altQuote.dex} = {"raydium", "meteora"}

\* an order was confirmed at 26 through raydium, meteora having quoted 25
C33_Witness ==
    \E e \in active :
        /\ e.pc = "logConfirmed"
        /\ e.quote.dex = "raydium" /\ e.quote.price = 26
        /\ e.altQuote.price = 25
        /\ orders[e.id].executedPrice = 26 /\ orders[e.id].selectedDex = "raydium"

RECURSIVE IsSubsequence(_, _)
\* whether seq is whole with some of its elements left out
IsSubsequence(seq, whole) ==
    IF seq = <<>> THEN TRUE
    ELSE IF whole = <<>> THEN FALSE
    ELSE IF Head(seq) = Head(whole) THEN IsSubsequence(Tail(seq), Tail(whole))
    ELSE IsSubsequence(seq, Tail(whole))

(* C34: the order log is append-only: every step leaves the entries an      *)
(* order already has as they are and in place, adding at most new entries   *)
(* at the end; and the entries of an order, read in the order they were     *)
(* appended, are statuses the order went through, in the order it went      *)
(* through them: pending, then the published statuses.                      *)
C34_LogIsAppendOnly ==
    [][\A o \in OrderIds :
          /\ IsPrefix(logs[o], logs'[o])
          /\ IsSubsequence(logs'[o], <<"pending">> \o notifs'[o])]_vars

\* a log with an entry missing (its write failed) and the later one in place
C34_Witness ==
    \E o \in OrderIds :
        /\ logs[o] = <<"pending", "building">>
        /\ notifs[o] = <<"routing", "building">>

C36_UnknownOrderIsDropped ==
    [][/\ \A e \in active' :
             ~OrderExists(e.id)' =>
                 /\ e.trail = <<>>
                 /\ e.pc \in {"lookup", "catchFind", "catchUpdate"}
                 /\ e.quote = NoQuote /\ e.result = NoResult
       /\ \A e \in active :
             (e.pc = "lookup" /\ dbUp /\ ~OrderExists(e.id) /\ e \notin active') =>
                 /\ active' = active \ {e}
                 /\ e.id \notin HeldJobIds'
                 /\ UNCHANGED <<orders, logs, notifs, lastMessage, received, swaps,
                                wait, delayed, failedJobs>>]_vars

\* the job of the unknown identifier was taken by the worker and is gone
C36_Witness ==
    /\ enqueued[UnknownId] = 1
    /\ UnknownId \notin HeldJobIds
    /\ \A o \in OrderIds : notifs[o] = <<>> /\ logs[o] = <<>> /\ ~orders[o].exists

(* C38: a handle that unsubscribeFromOrder has removed from an order is not *)
(* in the order's set, and a publication reaches exactly the handles that   *)
(* are in the set when it is made: the removed handle gets nothing until it *)
(* is subscribed again. Subscribing a handle that is already in the set     *)
(* leaves the registry as it was, so the handle gets each message once.     *)
C38_UnsubscribedHandleGetsNothing ==
    [][/\ \A h \in HubHandles, o \in OrderIds :
             /\ (registryCall'.op = "unsubscribe" /\ registryCall'.subscriber = h
                    /\ registryCall'.orderId = o) => h \notin SubscribersOf(o)'
             /\ (registryCall'.op = "subscribe" /\ registryCall'.subscriber = h
                    /\ registryCall'.orderId = o /\ registryCall' # registryCall) =>
                   /\ h \in SubscribersOf(o)'
                   /\ h \in SubscribersOf(o) => wsSubscribers' = wsSubscribers
       /\ \A o \in OrderIds :
             Published(o) =>
                 \A h \in DOMAIN received :
                     received'[h] =
                         IF h \in SubscribersOf(o)
                         THEN Append(received[h], Last(notifs'[o]))
                         ELSE received[h]]_vars

\* of two handles subscribed to an order the first was unsubscribed after
\* the first publication: the second publication reached only the other one
C38_Witness ==
    \E o \in OrderIds :
        /\ registryCall.op = "unsubscribe"
        /\ registryCall.orderId = o /\ registryCall.subscriber = 1
        /\ SubscribersBefore = {1, 2}
        /\ socket[1] = "open"
        /\ notifs[o] = <<"routing", "building">>
        /\ received[1] = <<"routing">>
        /\ received[2] = <<"routing", "building">>

\* a handle that was subscribed twice to an order has received its message once
C38_WitnessSubscribedTwice ==
    \E o \in OrderIds :
        /\ registryCall.op = "subscribe"
        /\ registryCall.orderId = o /\ registryCall.subscriber = 1
        /\ 1 \in SubscribersBefore
        /\ notifs[o] = <<"routing">>
        /\ received[1] = <<"routing">>

\* a body the claim calls invalid: an empty token, an amount that is not
\* positive, or a slippage outside [0, 1]
Rejectable(body) ==
    \/ body.tokenIn = "" \/ body.tokenOut = ""
    \/ body.amount <= 0
    \/ body.slippage # <<>> /\ (body.slippage[1] < 0 \/ body.slippage[1] > 100)

\* a step in which the POST handler takes a request
PostTaken == post.pc \in {"idle", "replied"} /\ post' # post

(* C31: a create request with an empty token, an amount that is not         *)
(* positive or a slippage outside [0,1] is answered 400 in the step that    *)
(* takes it, and no order record, log entry or job comes of it; a lookup of *)
(* an identifier without order record that reaches the database is          *)
(* answered 404, never 200, and a lookup changes nothing but its reply.     *)
C31_InvalidRequestHasNoEffect ==
    [][/\ (PostTaken /\ Rejectable(post'.body)) =>
             /\ post'.pc = "replied" /\ post'.code = 400 /\ post'.error # "none"
             /\ post'.orderId = 0
             /\ UNCHANGED <<orders, creating, logs, queueVars>>
       /\ (post'.pc \in {"create", "log", "enqueue"} \/ post'.code = 200) =>
             ~Rejectable(post'.body)
       /\ lookup' # lookup =>
             /\ UNCHANGED <<orders, creating, logs, queueVars, post>>
             /\ (dbUp /\ ~OrderExists(lookup'.orderId)) => lookup'.code = 404
             /\ lookup'.code = 200 => OrderExists(lookup'.orderId)]_vars

\* a request with an amount of zero was answered 400 after another request
\* had made an order, and the identifier without order was looked up
C31_Witness ==
    /\ post.pc = "replied" /\ post.code = 400 /\ post.error = "amount"
    /\ post.body.amount = 0 /\ post.body.tokenIn = "SOL" /\ post.body.tokenOut = "USDC"
    /\ orders[1].exists /\ ~orders[2].exists
    /\ lookup.orderId = UnknownId /\ lookup.code = 404

\* an order is persisted as pending while no request works on it
Settled(o) == orders[o].exists /\ ~(post.orderId = o /\ post.pc \in {"log", "enqueue"})

(* C37: when the POST handler has answered with an error, no order made by  *)
(* that request is persisted; and every persisted order whose request was   *)
(* answered has had a job enqueued for it.                                  *)
C37_CreateAndEnqueueAreAtomic ==
    /\ (post.pc = "replied" /\ post.code = 400) =>
           (post.orderId = 0 \/ ~orders[post.orderId].exists)
    /\ \A o \in OrderIds : Settled(o) => enqueued[o] >= 1

(* C39: the status snapshot an attaching observer is sent comes before any  *)
(* notification of the order: when the snapshot is sent the handle has      *)
(* received nothing yet, so the snapshot is never older than a status the   *)
(* observer already has.                                                    *)
C39_SnapshotBeforeLive ==
    observer.snapshot # "none" => observer.liveBefore = <<>>

(* C40: the server takes a request only while it listens, which it does     *)
(* only after queueService.initialize() has returned; the process goes      *)
(* through its phases in order: it stops accepting, then closes the worker  *)
(* and the queue, then the database. So no enqueueOrder of the route fails  *)
(* with 'Queue not initialized', and once the database client is closed no  *)
(* job is being processed and no order, log or notification changes.        *)
C40_StartupAndShutdownInOrder ==
    [][/\ PostTaken => (initialized /\ server = "listening")
       /\ server' = "listening" => initialized'
       /\ server' # server => PhaseOf(server') = PhaseOf(server) + 1
       /\ rejected' = {}
       /\ PhaseOf(server') >= PhaseOf("queueClosed") => active' = {}
       /\ PhaseOf(server) >= PhaseOf("dbClosed") =>
             UNCHANGED <<orders, logs, notifs, swaps, active, wait, post>>]_vars

\* the process has exited after it confirmed one order, with the job of
\* another order still waiting
C40_Witness ==
    /\ server = "exited"
    /\ \E o \in OrderIds, x \in OrderIds :
          /\ orders[o].status = "confirmed"
          /\ orders[x].status = "pending" /\ enqueued[x] = 1
          /\ \E i \in DOMAIN wait : wait[i].id = x

====
